---- MODULE Spec2Model ----
(***************************************************************************)
(* Model of the elevation-check engine of ElevationRS (src/src/lib.rs):    *)
(* the Elevation context (sid_result, admins_group, mem, cleaned), its     *)
(* operations new / renew / cleanup / is_elevated / is_cleaned, and the    *)
(* part of the operating system those operations touch: the heap of        *)
(* security identifiers, the malloc heap, the table of open process        *)
(* handles and the (fixed) group membership of every process token.        *)
(*                                                                         *)
(* Modelling assumptions about the operating system:                       *)
(*  - libc::malloc succeeds;                                               *)
(*  - the calling thread does not impersonate, so a null token handle      *)
(*    names the token of the calling process;                              *)
(*  - group membership and the outcome of CheckTokenMembership for a       *)
(*    given token do not change during one behaviour.                      *)
(***************************************************************************)
EXTENDS Integers, FiniteSets, Sequences, TLC

(* ---------------------------- bounds ----------------------------------- *)

\* number of Elevation::alloc() calls (new() and every renew()) in a behaviour
MaxAllocs == 2

(* ------------------------ program constants ---------------------------- *)

\* winapi::shared::minwindef::{FALSE, TRUE}
FALSE_ == 0
TRUE_ == 1

\* std::ptr::null_mut() as a PSID
NullPtr == 0
\* std::ptr::null_mut() as a HANDLE
NullHandle == "null"
\* an address that is not the address of any security identifier
WildPtr == 0 - 1

\* ErrorType
ErrorTypes == {"None", "Unknown", "NotRenewed", "OpenProcessFailed"}

(* ------------------------- the environment ----------------------------- *)

\* process identifiers a caller may pass: the calling process, another
\* running process, and an identifier that cannot be opened
Pids == {"self", "other", "gone"}
NoPid == "none"
Targets == {NoPid} \cup Pids

\* processes OpenProcess(PROCESS_ALL_ACCESS, ..) can open
Openable == {"self", "other"}

\* values GetLastError() reports after a failed OpenProcess
\* (ERROR_ACCESS_DENIED, ERROR_INVALID_PARAMETER)
OpenErrorCodes == {5, 87}

\* statuses AllocateAndInitializeSid may return: zero on failure, nonzero
\* (TRUE or another nonzero BOOL) on success
AllocStatusValues == {FALSE_, TRUE_, TRUE_ + 1}

SidIds == 1 .. MaxAllocs
BufIds == 1 .. MaxAllocs

VARIABLES
    sid_result,     \* Elevation.sid_result : i32
    admins_group,   \* Elevation.admins_group : PSID
    mem,            \* Elevation.mem : *mut c_void
    cleaned,        \* Elevation.cleaned : bool
    sids,           \* OS heap of security identifiers: id -> state
    bufs,           \* malloc heap: id -> state
    openHandles,    \* process handles currently open
    admin,          \* OS: is the token of process p in the administrators group
    ctmOk,          \* OS: does CheckTokenMembership succeed for the token of p
    lastError,      \* OS: the calling thread's last-error value, as OpenProcess sets it
    lifecycle,      \* the most recent of new() / renew() / cleanup()
    allocStatus,    \* status returned by the most recent alloc()
    okSeen,         \* per target, the Ok results returned since the last alloc()
    last,           \* observation of the most recent operation
    prev            \* brief observation of the operation before it

vars == << sid_result, admins_group, mem, cleaned, sids, bufs, openHandles,
           admin, ctmOk, lastError, lifecycle, allocStatus, okSeen, last, prev >>

osFixed == << admin, ctmOk >>

\* the token a query of target t checks: a null handle names the caller's
TokenOf(t) == IF t = NoPid THEN "self" ELSE t


(* --------------------------- observations ------------------------------ *)

\* one call into the operating system (or libc) made by an operation
Call(fn, arg, sid) == [ fn |-> fn, arg |-> arg, sid |-> sid ]

\* what one operation returned and the calls it made, in order
Obs(op, pid, ok, val, etype, code, calls) ==
    [ op |-> op, pid |-> pid, ok |-> ok, val |-> val, etype |-> etype,
      code |-> code, calls |-> calls ]

\* what is remembered of an observation once another operation has run:
\* of a renew() and of an answered is_elevated(None) the outcome, of any other
\* operation nothing
Forgotten == [ op |-> "-", pid |-> "-", ok |-> TRUE, val |-> FALSE ]
Brief(o) ==
    IF o.op = "renew" \/ (o.op = "is_elevated" /\ o.pid = "none" /\ o.ok)
    THEN [ op |-> o.op, pid |-> o.pid, ok |-> o.ok, val |-> o.val ]
    ELSE Forgotten

\* the positions of a call log that are calls of function fn
CallsTo(calls, fn) == { i \in DOMAIN calls : calls[i].fn = fn }

(* ------------------------------ Error ---------------------------------- *)

\* Error::new
ErrorNew(code, etype) == [ code |-> code, etype |-> etype ]

\* variant of get_code: the stored code is returned even when it is 0
get_codeAlways(e) == << e.code >>

\* Error::get_code : None is modelled as << >>, Some(c) as << c >>
get_code(e) == IF e.code = 0 THEN << >> ELSE << e.code >>

\* Error::get_type
get_type(e) == IF e.etype = "None" THEN << >> ELSE << e.etype >>

(* --------------------------- OS primitives ----------------------------- *)

\* FreeSid(p): frees the identifier p points to; freeing a freed identifier
\* is recorded as "freed2"; a pointer that is no identifier changes nothing
FreeSid(p, heap) ==
    IF p \in SidIds
    THEN [heap EXCEPT ![p] = IF @ = "live" THEN "freed"
                             ELSE IF @ = "unalloc" THEN "unalloc"
                             ELSE "freed2"]
    ELSE heap

\* <*mut c_void>::drop_in_place(): runs the destructor of c_void in place,
\* which does nothing; the malloc'ed block is not handed back to free()
drop_in_place(m, heap) == heap

\* OpenProcess(PROCESS_ALL_ACCESS, FALSE, pid): the handle, or null
OpenProcess(pid) == IF pid \in Openable THEN pid ELSE NullHandle

\* GetLastError(): the calling thread's last-error value
GetLastError(err) == err

\* CheckTokenMembership(handle, sid, &is_member): the BOOL it returns and the
\* BOOL it writes through the out pointer when it succeeds
CheckTokenMembership(handle) ==
    LET tok == IF handle = NullHandle THEN "self" ELSE handle
    IN  IF ctmOk[tok]
        THEN [ ret |-> TRUE_, is_member |-> IF admin[tok] THEN TRUE_ ELSE FALSE_ ]
        ELSE [ ret |-> FALSE_, is_member |-> FALSE_ ]

\* the lowest block (or identifier) not handed out yet
FreshId(heap) ==
    CHOOSE b \in DOMAIN heap :
        heap[b] = "unalloc" /\ \A c \in DOMAIN heap : c < b => heap[c] # "unalloc"

\* what reading the uninitialised malloc'ed block as a PSID may yield: null,
\* an address of no identifier, or the address of an identifier handed out
\* before
Garbage(heap) == {NullPtr, WildPtr} \cup { k \in SidIds : heap[k] # "unalloc" }

\* AllocateAndInitializeSid(.., &mut psid): on success a nonzero status and
\* the address of a new identifier; on failure zero, psid left as it was
AllocateAndInitializeSid(heap, psid) ==
    { [ status |-> st, psid |-> FreshId(heap),
        heap |-> [heap EXCEPT ![FreshId(heap)] = "live"] ]
        : st \in AllocStatusValues \ {FALSE_} }
    \cup { [ status |-> FALSE_, psid |-> psid, heap |-> heap ] }

(* ---------------------------- Elevation -------------------------------- *)

\* Elevation::alloc : the outcomes of one call
alloc(sidHeap, bufHeap) ==
    LET m == FreshId(bufHeap)
    IN  { [ sid_result |-> o.status, admins_group |-> o.psid, mem |-> m,
            sids |-> o.heap, bufs |-> [bufHeap EXCEPT ![m] = "live"] ]
          : o \in UNION { AllocateAndInitializeSid(sidHeap, g)
                          : g \in Garbage(sidHeap) } }

\* the calls Elevation::alloc makes
AllocCalls == << Call("malloc", "-", NullPtr),
                 Call("AllocateAndInitializeSid", "-", NullPtr) >>

\* variant of Refused: the cleaned flag is not consulted
RefusedNever(c) == FALSE

\* is_elevated, line 150: the query is refused
Refused(c) == c

\* variant of StatusAfterTest: the membership test runs again after a false
\* result
StatusAfterTestRetries(status, handle) ==
    IF status = TRUE_ \/ status = FALSE_
    THEN IF CheckTokenMembership(handle).ret = FALSE_
         THEN FALSE_
         ELSE CheckTokenMembership(handle).is_member
    ELSE status

\* variant of StatusAfterTest: the membership test runs whatever the slot holds
StatusAfterTestAlways(status, handle) ==
    IF CheckTokenMembership(handle).ret = FALSE_
    THEN FALSE_
    ELSE CheckTokenMembership(handle).is_member

\* is_elevated, lines 178-182: the status slot after the membership test
StatusAfterTest(status, handle) ==
    IF status = TRUE_
    THEN IF CheckTokenMembership(handle).ret = FALSE_
         THEN FALSE_
         ELSE CheckTokenMembership(handle).is_member
    ELSE status

\* is_elevated, lines 178-179: the membership test it makes
TestCalls(status, handle, group) ==
    IF status = TRUE_
    THEN << Call("CheckTokenMembership", handle, group) >>
    ELSE << >>

\* variant of CloseCalls: the handle is left open
CloseNever(handle) == << >>

\* is_elevated, lines 184-186: the handle it closes
CloseCalls(handle) ==
    IF handle # NullHandle
    THEN << Call("CloseHandle", handle, NullPtr) >>
    ELSE << >>

\* is_elevated, lines 188-192: the boolean returned
Verdict(status) == status = TRUE_

\* the handle table after one query that opened `handle` and made `calls`
HandlesAfter(handles, handle, calls) ==
    ((handles \cup {handle}) \ {NullHandle})
        \ { calls[i].arg : i \in CallsTo(calls, "CloseHandle") }

EmptyHeap == [ k \in SidIds |-> "unalloc" ]
EmptySeen == [ t \in Targets |-> {} ]

\* Elevation::new, in an operating system whose memberships are fixed
Init ==
    /\ admin \in [ Openable -> BOOLEAN ]
    /\ ctmOk \in [ Openable -> BOOLEAN ]
    /\ \E a \in alloc(EmptyHeap, EmptyHeap) :
        /\ sid_result = a.sid_result
        /\ admins_group = a.admins_group
        /\ mem = a.mem
        /\ sids = a.sids
        /\ bufs = a.bufs
        /\ allocStatus = a.sid_result
    /\ cleaned = FALSE
    /\ lifecycle = "new"
    /\ lastError = 0
    /\ openHandles = {}
    /\ okSeen = EmptySeen
    /\ last = Obs("new", "-", TRUE, FALSE, "None", 0, AllocCalls)
    /\ prev = Forgotten

\* variant of Renew: the status slot keeps its old value
RenewKeepsStatus ==
    /\ \E b \in BufIds : bufs[b] = "unalloc"
    /\ \E a \in alloc(sids, bufs) :
        /\ sid_result' = sid_result
        /\ admins_group' = a.admins_group
        /\ mem' = a.mem
        /\ sids' = a.sids
        /\ bufs' = a.bufs
        /\ allocStatus' = a.sid_result
    /\ cleaned' = FALSE
    /\ okSeen' = EmptySeen
    /\ last' = Obs("renew", "-", TRUE, cleaned, "None", 0, AllocCalls)
    /\ prev' = Brief(last)
    /\ lifecycle' = "renew"
    /\ UNCHANGED << openHandles, osFixed, lastError >>

\* variant of Renew: the identifier handle keeps its old value
RenewKeepsGroup ==
    /\ \E b \in BufIds : bufs[b] = "unalloc"
    /\ \E a \in alloc(sids, bufs) :
        /\ sid_result' = a.sid_result
        /\ admins_group' = admins_group
        /\ mem' = a.mem
        /\ sids' = a.sids
        /\ bufs' = a.bufs
        /\ allocStatus' = a.sid_result
    /\ cleaned' = FALSE
    /\ okSeen' = EmptySeen
    /\ last' = Obs("renew", "-", TRUE, cleaned, "None", 0, AllocCalls)
    /\ prev' = Brief(last)
    /\ lifecycle' = "renew"
    /\ UNCHANGED << openHandles, osFixed, lastError >>

\* variant of Renew: the cleaned flag is not reset
RenewKeepsFlag ==
    /\ \E b \in BufIds : bufs[b] = "unalloc"
    /\ \E a \in alloc(sids, bufs) :
        /\ sid_result' = a.sid_result
        /\ admins_group' = a.admins_group
        /\ mem' = a.mem
        /\ sids' = a.sids
        /\ bufs' = a.bufs
        /\ allocStatus' = a.sid_result
    /\ cleaned' = cleaned
    /\ okSeen' = EmptySeen
    /\ last' = Obs("renew", "-", TRUE, cleaned, "None", 0, AllocCalls)
    /\ prev' = Brief(last)
    /\ lifecycle' = "renew"
    /\ UNCHANGED << openHandles, osFixed, lastError >>

\* Elevation::renew; the observation's val records whether the context was
\* released when renew() ran
Renew ==
    /\ \E b \in BufIds : bufs[b] = "unalloc"
    /\ \E a \in alloc(sids, bufs) :
        /\ sid_result' = a.sid_result
        /\ admins_group' = a.admins_group
        /\ mem' = a.mem
        /\ sids' = a.sids
        /\ bufs' = a.bufs
        /\ allocStatus' = a.sid_result
    /\ cleaned' = FALSE
    /\ okSeen' = EmptySeen
    /\ last' = Obs("renew", "-", TRUE, cleaned, "None", 0, AllocCalls)
    /\ prev' = Brief(last)
    /\ lifecycle' = "renew"
    /\ UNCHANGED << openHandles, osFixed, lastError >>

\* variant of Cleanup: the cleaned flag is not set
CleanupKeepsFlag ==
    /\ sids' = FreeSid(admins_group, sids)
    /\ bufs' = drop_in_place(mem, bufs)
    /\ cleaned' = cleaned
    /\ last' = Obs("cleanup", "-", TRUE, FALSE, "None", 0,
                   << Call("FreeSid", "-", admins_group) >>)
    /\ prev' = Brief(last)
    /\ lifecycle' = "cleanup"
    /\ UNCHANGED << sid_result, admins_group, mem, openHandles, osFixed,
                    lastError, allocStatus, okSeen >>

\* Elevation::cleanup
Cleanup ==
    /\ sids' = FreeSid(admins_group, sids)
    /\ bufs' = drop_in_place(mem, bufs)
    /\ cleaned' = TRUE
    /\ last' = Obs("cleanup", "-", TRUE, FALSE, "None", 0,
                   << Call("FreeSid", "-", admins_group) >>)
    /\ prev' = Brief(last)
    /\ lifecycle' = "cleanup"
    /\ UNCHANGED << sid_result, admins_group, mem, openHandles, osFixed,
                    lastError, allocStatus, okSeen >>

\* variant of IsElevatedRefused: the target is opened (and closed again)
\* before the cleaned flag is looked at
IsElevatedRefusedAfterOpen(pid) ==
    /\ Refused(cleaned)
    /\ last' = Obs("is_elevated", pid, FALSE, FALSE,
                   ErrorNew(0, "NotRenewed").etype, ErrorNew(0, "NotRenewed").code,
                   IF pid # NoPid
                   THEN << Call("OpenProcess", pid, NullPtr) >>
                            \o CloseCalls(OpenProcess(pid))
                   ELSE << >>)
    /\ prev' = Brief(last)
    /\ UNCHANGED << sid_result, admins_group, mem, cleaned, sids, bufs,
                    openHandles, osFixed, lastError, lifecycle, allocStatus,
                    okSeen >>

\* Elevation::is_elevated, lines 150-159: the context was cleaned up
IsElevatedRefused(pid) ==
    /\ Refused(cleaned)
    /\ last' = Obs("is_elevated", pid, FALSE, FALSE,
                   ErrorNew(0, "NotRenewed").etype, ErrorNew(0, "NotRenewed").code,
                   << >>)
    /\ prev' = Brief(last)
    /\ UNCHANGED << sid_result, admins_group, mem, cleaned, sids, bufs,
                    openHandles, osFixed, lastError, lifecycle, allocStatus,
                    okSeen >>

\* variant of IsElevatedOpenFailed: the failure is reported as Unknown
IsElevatedOpenFailedUnknown(pid) ==
    /\ ~Refused(cleaned)
    /\ pid # NoPid
    /\ OpenProcess(pid) = NullHandle
    /\ lastError' \in OpenErrorCodes
    /\ last' = Obs("is_elevated", pid, FALSE, FALSE,
                   ErrorNew(GetLastError(lastError'), "Unknown").etype,
                   ErrorNew(GetLastError(lastError'), "Unknown").code,
                   << Call("OpenProcess", pid, NullPtr) >>)
    /\ prev' = Brief(last)
    /\ UNCHANGED << sid_result, admins_group, mem, cleaned, sids, bufs,
                    openHandles, osFixed, lifecycle, allocStatus, okSeen >>

\* variant of IsElevatedOpenFailed: no early return, the query goes on with
\* the null handle
IsElevatedOpenFailedFallsThrough(pid) ==
    /\ ~Refused(cleaned)
    /\ pid # NoPid
    /\ OpenProcess(pid) = NullHandle
    /\ LET calls  == << Call("OpenProcess", pid, NullPtr) >>
                         \o TestCalls(sid_result, NullHandle, admins_group)
                         \o CloseCalls(NullHandle)
           status == StatusAfterTest(sid_result, NullHandle)
       IN  /\ sid_result' = status
           /\ last' = Obs("is_elevated", pid, TRUE, Verdict(status), "None", 0, calls)
           /\ okSeen' = [okSeen EXCEPT ![pid] = @ \cup {Verdict(status)}]
    /\ prev' = Brief(last)
    /\ UNCHANGED << admins_group, mem, cleaned, sids, bufs, openHandles, osFixed,
                    lastError, lifecycle, allocStatus >>

\* Elevation::is_elevated, lines 163-176: the target process cannot be opened
IsElevatedOpenFailed(pid) ==
    /\ ~Refused(cleaned)
    /\ pid # NoPid
    /\ OpenProcess(pid) = NullHandle
    /\ lastError' \in OpenErrorCodes
    /\ last' = Obs("is_elevated", pid, FALSE, FALSE,
                   ErrorNew(GetLastError(lastError'), "OpenProcessFailed").etype,
                   ErrorNew(GetLastError(lastError'), "OpenProcessFailed").code,
                   << Call("OpenProcess", pid, NullPtr) >>)
    /\ prev' = Brief(last)
    /\ UNCHANGED << sid_result, admins_group, mem, cleaned, sids, bufs,
                    openHandles, osFixed, lifecycle, allocStatus, okSeen >>

\* Elevation::is_elevated, lines 162-192: the query is answered
IsElevatedOk(pid) ==
    /\ ~Refused(cleaned)
    /\ pid # NoPid => OpenProcess(pid) # NullHandle
    /\ LET handle == IF pid # NoPid THEN OpenProcess(pid) ELSE NullHandle
           opens  == IF pid # NoPid
                     THEN << Call("OpenProcess", pid, NullPtr) >> ELSE << >>
           calls  == opens \o TestCalls(sid_result, handle, admins_group)
                           \o CloseCalls(handle)
           status == StatusAfterTest(sid_result, handle)
       IN  /\ sid_result' = status
           /\ openHandles' = HandlesAfter(openHandles, handle, calls)
           /\ last' = Obs("is_elevated", pid, TRUE, Verdict(status), "None", 0, calls)
           /\ okSeen' = [okSeen EXCEPT ![pid] = @ \cup {Verdict(status)}]
    /\ prev' = Brief(last)
    /\ UNCHANGED << admins_group, mem, cleaned, sids, bufs, osFixed, lastError,
                    lifecycle, allocStatus >>

\* Elevation::is_elevated
IsElevated(pid) ==
    \/ IsElevatedRefused(pid)
    \/ IsElevatedOpenFailed(pid)
    \/ IsElevatedOk(pid)

\* Elevation::is_cleaned
IsCleaned ==
    /\ last' = Obs("is_cleaned", "-", TRUE, cleaned, "None", 0, << >>)
    /\ prev' = Brief(last)
    /\ UNCHANGED << sid_result, admins_group, mem, cleaned, sids, bufs,
                    openHandles, osFixed, lastError, lifecycle, allocStatus,
                    okSeen >>

Next ==
    \/ Renew
    \/ Cleanup
    \/ \E pid \in Targets : IsElevated(pid)
    \/ IsCleaned

Spec == Init /\ [][Next]_vars

TypeOK ==
    /\ sid_result \in AllocStatusValues
    /\ admins_group \in SidIds \cup {NullPtr, WildPtr}
    /\ mem \in BufIds
    /\ cleaned \in BOOLEAN
    /\ openHandles \subseteq Openable
    /\ last.etype \in ErrorTypes
    /\ lastError \in {0} \cup OpenErrorCodes
    /\ lifecycle \in {"new", "renew", "cleanup"}

(* ------------------------- shorthands for claims ----------------------- *)

\* the most recent operation was a query
Queried == last.op = "is_elevated"

\* the most recent operation was a query that returned Ok
Answered == Queried /\ last.ok

\* the operating system reports the token of process p to be a member of the
\* administrators group
OsReportsMember(p) == ctmOk[p] /\ admin[p]

\* the membership tests / handle closes of a call log
Tests(calls) == CallsTo(calls, "CheckTokenMembership")
Closes(calls) == CallsTo(calls, "CloseHandle")

(* ------------------------------- C1 ------------------------------------ *)

\* C1: once cleanup() has run and no renew() since, every is_elevated(pid),
\* for None and for every Some(pid), openable or not, returns Err of kind
\* NotRenewed, however many queries succeeded before.
C1_RefusedAfterCleanup ==
    (Queried /\ cleaned) => (~last.ok /\ last.etype = "NotRenewed")

\* a query of a pid that cannot be opened, refused after a cleanup that
\* followed answered queries
C1_Witness ==
    /\ Queried /\ cleaned /\ last.pid = "gone"
    /\ okSeen[NoPid] # {} /\ okSeen["other"] # {}

(* ------------------------------- C2 ------------------------------------ *)

\* C2: release happens exactly once: no group identifier (and no auxiliary
\* buffer) is ever freed a second time; cleanup() on an already released
\* context, with no renew() in between, frees nothing again.
C2_NoDoubleFree ==
    /\ \A k \in SidIds : sids[k] # "freed2"
    /\ \A b \in BufIds : bufs[b] # "freed2"

(* ------------------------------- C3 ------------------------------------ *)

\* C3: no allocated identifier is lost: after any sequence of operations that
\* ends with cleanup(), every identifier allocated by new() or a renew() has
\* been freed.
C3_NoIdentifierLost ==
    last.op = "cleanup" => \A k \in SidIds : sids[k] # "live"

(* ------------------------------- C4 ------------------------------------ *)

\* C4: queries are idempotent: on a context that is not released, with no
\* renew() in between and the memberships fixed, any two Ok results for the
\* same target are the same boolean, whatever was queried between them.
C4_QueriesIdempotent ==
    \A t \in Targets : Cardinality(okSeen[t]) <= 1

(* ------------------------------- C5 ------------------------------------ *)

\* C5: on a context whose allocation succeeded, after any earlier queries, a
\* query that returns Ok returns true if and only if the operating system
\* reports the checked token to be a member of the administrators group.
\* (Success is taken in its narrowest sense, the status TRUE.)
C5_ResultIffMember ==
    (Answered /\ allocStatus = TRUE_)
        => (last.val <=> OsReportsMember(TokenOf(last.pid)))

(* ------------------------------- C6 ------------------------------------ *)

\* C6: is_elevated(None) followed by is_elevated(Some(own pid)), both Ok,
\* yield the same boolean: both true for a process with administrative
\* rights, both false for one without. (Stated for an allocation that
\* succeeded with TRUE and a membership primitive that works for the caller's
\* token, the conditions under which the rights of the process can show.)
C6_SelfQueriesAgree ==
    ( /\ prev.op = "is_elevated" /\ prev.ok /\ prev.pid = NoPid
      /\ Answered /\ last.pid = "self"
      /\ allocStatus = TRUE_ /\ ctmOk["self"] )
        => /\ prev.val = last.val
           /\ admin["self"] => (prev.val /\ last.val)
           /\ ~admin["self"] => (~prev.val /\ ~last.val)

(* ------------------------------- C7 ------------------------------------ *)

\* C7: renew() on a released context makes it queryable again: after it
\* is_cleaned() is false and the next is_elevated(None) returns Ok, never
\* Err(NotRenewed).
C7_RenewRevives ==
    /\ last.op = "renew" => ~cleaned
    /\ (prev.op = "renew" /\ last.op = "is_cleaned") => ~last.val
    /\ (prev.op = "renew" /\ Queried /\ last.pid = NoPid)
            => (last.ok /\ last.etype # "NotRenewed")

\* a released context was renewed and then queried with no target
C7_Witness ==
    /\ prev.op = "renew" /\ prev.val
    /\ Queried /\ last.pid = NoPid /\ last.ok

(* ------------------------------- C8 ------------------------------------ *)

\* C8: is_elevated(Some(pid)) on a context that is not released, for a pid
\* that cannot be opened, returns Err of kind OpenProcessFailed, performs no
\* membership test, closes no handle, and leaves the status slot and the
\* released flag as they were.
C8_OpenFailure ==
    [][ (~cleaned /\ last'.op = "is_elevated" /\ last'.pid \in Pids
            /\ OpenProcess(last'.pid) = NullHandle)
        => /\ ~last'.ok
           /\ last'.etype = "OpenProcessFailed"
           /\ Tests(last'.calls) = {}
           /\ Closes(last'.calls) = {}
           /\ sid_result' = sid_result
           /\ cleaned' = cleaned ]_vars

\* the open failed on a context whose slot would have let the test run
C8_Witness ==
    /\ Queried /\ ~cleaned /\ last.pid = "gone"
    /\ last.etype = "OpenProcessFailed" /\ sid_result = TRUE_

(* ------------------------------- C9 ------------------------------------ *)

\* C9: process handles live within one query: between operations no handle
\* opened by is_elevated is open, and within a query every handle that was
\* opened is closed exactly once, after it was opened, on every exit path,
\* also when the allocation had failed and no membership test runs.
C9_HandlesScoped ==
    /\ openHandles = {}
    /\ Queried =>
        \A i \in CallsTo(last.calls, "OpenProcess") :
            OpenProcess(last.calls[i].arg) # NullHandle =>
                Cardinality({ j \in Closes(last.calls) :
                    last.calls[j].arg = OpenProcess(last.calls[i].arg) /\ j > i }) = 1

\* a handle was opened and closed in a query that ran no membership test
C9_Witness ==
    /\ Answered /\ last.pid = "other"
    /\ Tests(last.calls) = {} /\ Closes(last.calls) # {}
    /\ allocStatus = FALSE_

(* ------------------------------- C10 ----------------------------------- *)

\* C10: allocation failure never shows as an error: on a context that is not
\* released and whose allocation recorded failure, every is_elevated whose
\* target is absent or opens returns Ok(false) and performs no membership
\* test.
C10_AllocFailureIsFalse ==
    ( Queried /\ ~cleaned /\ allocStatus = FALSE_
      /\ (last.pid = NoPid \/ OpenProcess(last.pid) # NullHandle) )
        => (last.ok /\ ~last.val /\ Tests(last.calls) = {})

\* a failed allocation, then a query of an administrator's token
C10_Witness ==
    /\ Queried /\ ~cleaned /\ allocStatus = FALSE_
    /\ last.pid = "self" /\ OsReportsMember("self") /\ last.ok
(* ------------------------------- C11 ----------------------------------- *)

\* C11: cleanup() on a context that is not released frees both native
\* resources of the current allocation: after it the group identifier and the
\* auxiliary buffer obtained by the most recent new() / renew() are freed and
\* the released flag is true. (The identifier is looked at when the
\* allocation produced one.)
C11_CleanupFreesBoth ==
    [][ (~cleaned /\ last'.op = "cleanup")
        => /\ cleaned'
           /\ allocStatus # FALSE_ => sids'[admins_group] = "freed"
           /\ bufs'[mem] = "freed" ]_vars

(* ------------------------------- C12 ----------------------------------- *)

\* the Error value an observation of a failed query stands for
ErrorOf(o) == ErrorNew(o.code, o.etype)

\* C12: native codes are optional and kept verbatim: an OpenProcessFailed
\* error stores exactly the last-error value of the failed open and get_code()
\* returns Some of it, which is nonzero; a NotRenewed error has no native code;
\* get_code() is None exactly when the stored code is 0.
C12_NativeCode ==
    (Queried /\ ~last.ok) =>
        /\ last.etype = "OpenProcessFailed" =>
                /\ last.code = lastError
                /\ last.code # 0
                /\ get_code(ErrorOf(last)) = << lastError >>
        /\ last.etype = "NotRenewed" => get_code(ErrorOf(last)) = << >>
        /\ get_code(ErrorOf(last)) = << >> <=> last.code = 0

\* an open failed and the error carries the last-error value of that failure
C12_Witness ==
    /\ Queried /\ ~cleaned /\ last.etype = "OpenProcessFailed"
    /\ last.code = 87 /\ get_code(ErrorOf(last)) = << 87 >>

(* ------------------------------- C13 ----------------------------------- *)

\* C13: the context is a two-state machine {Fresh, Released}: is_cleaned()
\* is true exactly when the most recent of new() / renew() / cleanup() was
\* cleanup(); is_elevated (Ok or Err) and is_cleaned never change the flag;
\* renew() is enabled in both states (as long as the model has an allocation
\* left) and always leads to Fresh.
C13_TwoStates ==
    /\ [](cleaned <=> lifecycle = "cleanup")
    /\ []((\E b \in BufIds : bufs[b] = "unalloc") => ENABLED Renew)
    /\ [][ /\ last'.op \in {"is_elevated", "is_cleaned"} => cleaned' = cleaned
           /\ last'.op = "is_cleaned" => last'.val = cleaned
           /\ last'.op = "renew" => ~cleaned' ]_vars

\* is_cleaned() answered false on a context that was released and renewed
C13_Witness ==
    /\ prev.op = "renew" /\ prev.val
    /\ last.op = "is_cleaned" /\ ~last.val /\ lifecycle = "renew"

(* ------------------------------- C14 ----------------------------------- *)

\* C14: the released check comes first: is_elevated on a released context
\* makes no call into the operating system and leaves the identifier handle,
\* the status slot, the buffer and the released flag unchanged, also for a
\* target that could not have been opened.
C14_ReleasedCheckFirst ==
    [][ (cleaned /\ last'.op = "is_elevated")
        => /\ last'.calls = << >>
           /\ UNCHANGED << sid_result, admins_group, mem, cleaned, sids, bufs,
                           openHandles, lastError >> ]_vars

\* a refused query of a pid that cannot be opened, with a slot that would
\* have let the membership test run
C14_Witness ==
    /\ Queried /\ cleaned /\ last.pid = "gone" /\ last.etype = "NotRenewed"
    /\ last.calls = << >> /\ sid_result = TRUE_ /\ lastError = 0
(* ------------------------------- C15 ----------------------------------- *)

\* C15: renew() replaces the whole state with a fresh allocation: after it
\* the status slot holds the status of the new allocation call (not what an
\* earlier membership test wrote), the buffer and, when the call produced
\* one, the identifier are those just allocated, and released is false; so
\* the result of the query after renew() is decided by the new status and
\* the operating system alone.
C15_RenewReplacesAll ==
    /\ [][ last'.op = "renew"
           => /\ sid_result' = allocStatus'
              /\ ~cleaned'
              /\ bufs[mem'] = "unalloc" /\ bufs'[mem'] = "live"
              /\ allocStatus' # FALSE_
                    => /\ admins_group' \in SidIds
                       /\ sids[admins_group'] = "unalloc"
                       /\ sids'[admins_group'] = "live" ]_vars
    /\ []( (prev.op = "renew" /\ Answered)
           => (last.val <=> (allocStatus = TRUE_
                             /\ OsReportsMember(TokenOf(last.pid)))) )

\* a context that was not released was renewed with a new identifier (the
\* old one still allocated), and the next query returned true
C15_Witness ==
    /\ prev.op = "renew" /\ ~prev.val /\ Answered /\ last.val
    /\ \E k \in SidIds : sids[k] = "live" /\ k # admins_group

(* ------------------------------- C16 ----------------------------------- *)

\* C16: a query performs the membership test exactly when the status slot
\* records success, success being any nonzero status: on a context that is
\* not released, a query whose target is absent or opens invokes the
\* membership primitive for every nonzero value of the slot, and only then.
C16_TestIffNonzero ==
    [][ ( ~cleaned /\ last'.op = "is_elevated"
          /\ (last'.pid = NoPid \/ OpenProcess(last'.pid) # NullHandle) )
        => (Tests(last'.calls) # {} <=> sid_result # FALSE_) ]_vars

(* ------------------------------- C17 ----------------------------------- *)

\* C17: the error taxonomy is closed and every failure is a returned value:
\* is_elevated returns errors of kind NotRenewed and OpenProcessFailed only,
\* the kinds Unknown and None are never produced, and new(), renew(),
\* cleanup() and is_cleaned() never produce an error.
C17_ClosedTaxonomy ==
    /\ ~last.ok =>
        /\ last.op = "is_elevated"
        /\ last.etype \in {"NotRenewed", "OpenProcessFailed"}
        /\ get_type(ErrorOf(last)) = << last.etype >>
    /\ last.op \in {"new", "renew", "cleanup", "is_cleaned"} => last.ok
    /\ (Queried /\ cleaned) => last.etype = "NotRenewed"
    /\ (Queried /\ last.etype = "OpenProcessFailed") => last.pid \in Pids \ Openable

\* both kinds of error were returned: an open had failed, then the context
\* was released and a query refused
C17_Witness ==
    /\ Queried /\ ~last.ok /\ last.etype = "NotRenewed"
    /\ lastError \in OpenErrorCodes

(* ------------------------------- C18 ----------------------------------- *)

\* a query of this allocation epoch has returned Ok(false)
FalseSeen == \E t \in Targets : FALSE \in okSeen[t]

\* C18: a false result is sticky within one allocation epoch: once a query
\* has returned Ok(false), every later query that returns Ok returns
\* Ok(false), and no query invokes the membership primitive, until renew().
C18_FalseIsSticky ==
    [][ (FalseSeen /\ last'.op = "is_elevated")
        => /\ Tests(last'.calls) = {}
           /\ last'.ok => ~last'.val ]_vars

\* a target answered true before and false after another target's false
C18_Witness ==
    /\ Answered /\ ~last.val /\ last.pid = "self"
    /\ okSeen["self"] = {TRUE, FALSE} /\ OsReportsMember("self")

(* ------------------------------- C19 ----------------------------------- *)

\* C19: no use after free: the membership primitive is never invoked with a
\* group identifier that has been freed, and whenever the context is not
\* released and its last allocation succeeded, the identifier handle refers
\* to an identifier that is allocated and not freed.
C19_NoUseAfterFree ==
    /\ Queried =>
        \A i \in Tests(last.calls) :
            /\ last.calls[i].sid \in SidIds
            /\ sids[last.calls[i].sid] = "live"
    /\ (~cleaned /\ allocStatus # FALSE_) =>
            /\ admins_group \in SidIds
            /\ sids[admins_group] = "live"

\* the membership test ran on the identifier of a renewed context while the
\* identifier of the epoch before is freed
C19_Witness ==
    /\ Queried /\ Tests(last.calls) # {}
    /\ \E k \in SidIds : sids[k] \in {"freed", "freed2"}
====
